---------------------------- MODULE Spec2Model ----------------------------
(***************************************************************************)
(* Model of the esp-cpa correlation library: the CpaSolver and             *)
(* AssessmentSolver drivers (src/src/lib.rs), the leakage models           *)
(* (src/src/power_consumption_models.rs) and the OpenCL streaming          *)
(* correlation engine (src/src/correlation_engine.rs).                     *)
(*                                                                         *)
(* The AES primitives (aes.rs) and the device kernel (correlation.cl) are  *)
(* not among the source files; they are modelled from their description in *)
(* spec.md (sections 4.1 and 4.3).                                         *)
(***************************************************************************)
EXTENDS Integers, Sequences, FiniteSets, TLC

(***************************************************************************)
(* Byte arithmetic                                                         *)
(***************************************************************************)

\* Bitwise exclusive or of two n-bit values (Rust's ^ on u8).
RECURSIVE XorN(_, _, _)
XorN(a, b, n) ==
    IF n = 0 THEN 0
    ELSE ((a + b) % 2) + 2 * XorN(a \div 2, b \div 2, n - 1)

XorTab == [a \in 0..255 |-> [b \in 0..255 |-> XorN(a, b, 8)]]

Xor(a, b) == XorTab[a][b]

\* u8::count_ones / u32::count_ones
RECURSIVE count_ones(_)
count_ones(v) == IF v = 0 THEN 0 ELSE (v % 2) + count_ones(v \div 2)

(***************************************************************************)
(* AES primitive kernel (spec.md 4.1)                                      *)
(***************************************************************************)

SBOX ==
   << 
       99, 124, 119, 123, 242, 107, 111, 197,  48,   1, 103,  43, 254, 215, 171, 118,
      202, 130, 201, 125, 250,  89,  71, 240, 173, 212, 162, 175, 156, 164, 114, 192,
      183, 253, 147,  38,  54,  63, 247, 204,  52, 165, 229, 241, 113, 216,  49,  21,
        4, 199,  35, 195,  24, 150,   5, 154,   7,  18, 128, 226, 235,  39, 178, 117,
        9, 131,  44,  26,  27, 110,  90, 160,  82,  59, 214, 179,  41, 227,  47, 132,
       83, 209,   0, 237,  32, 252, 177,  91, 106, 203, 190,  57,  74,  76,  88, 207,
      208, 239, 170, 251,  67,  77,  51, 133,  69, 249,   2, 127,  80,  60, 159, 168,
       81, 163,  64, 143, 146, 157,  56, 245, 188, 182, 218,  33,  16, 255, 243, 210,
      205,  12,  19, 236,  95, 151,  68,  23, 196, 167, 126,  61, 100,  93,  25, 115,
       96, 129,  79, 220,  34,  42, 144, 136,  70, 238, 184,  20, 222,  94,  11, 219,
      224,  50,  58,  10,  73,   6,  36,  92, 194, 211, 172,  98, 145, 149, 228, 121,
      231, 200,  55, 109, 141, 213,  78, 169, 108,  86, 244, 234, 101, 122, 174,   8,
      186, 120,  37,  46,  28, 166, 180, 198, 232, 221, 116,  31,  75, 189, 139, 138,
      112,  62, 181, 102,  72,   3, 246,  14,  97,  53,  87, 185, 134, 193,  29, 158,
      225, 248, 152,  17, 105, 217, 142, 148, 155,  30, 135, 233, 206,  85,  40, 223,
      140, 161, 137,  13, 191, 230,  66, 104,  65, 153,  45,  15, 176,  84, 187,  22 >>
INV_SBOX ==
   << 
       82,   9, 106, 213,  48,  54, 165,  56, 191,  64, 163, 158, 129, 243, 215, 251,
      124, 227,  57, 130, 155,  47, 255, 135,  52, 142,  67,  68, 196, 222, 233, 203,
       84, 123, 148,  50, 166, 194,  35,  61, 238,  76, 149,  11,  66, 250, 195,  78,
        8,  46, 161, 102,  40, 217,  36, 178, 118,  91, 162,  73, 109, 139, 209,  37,
      114, 248, 246, 100, 134, 104, 152,  22, 212, 164,  92, 204,  93, 101, 182, 146,
      108, 112,  72,  80, 253, 237, 185, 218,  94,  21,  70,  87, 167, 141, 157, 132,
      144, 216, 171,   0, 140, 188, 211,  10, 247, 228,  88,   5, 184, 179,  69,   6,
      208,  44,  30, 143, 202,  63,  15,   2, 193, 175, 189,   3,   1,  19, 138, 107,
       58, 145,  17,  65,  79, 103, 220, 234, 151, 242, 207, 206, 240, 180, 230, 115,
      150, 172, 116,  34, 231, 173,  53, 133, 226, 249,  55, 232,  28, 117, 223, 110,
       71, 241,  26, 113,  29,  41, 197, 137, 111, 183,  98,  14, 170,  24, 190,  27,
      252,  86,  62,  75, 198, 210, 121,  32, 154, 219, 192, 254, 120, 205,  90, 244,
       31, 221, 168,  51, 136,   7, 199,  49, 177,  18,  16,  89,  39, 128, 236,  95,
       96,  81, 127, 169,  25, 181,  74,  13,  45, 229, 122, 159, 147, 201, 156, 239,
      160, 224,  59,  77, 174,  42, 245, 176, 200, 235, 187,  60, 131,  83, 153,  97,
       23,  43,   4, 126, 186, 119, 214,  38, 225, 105,  20,  99,  85,  33,  12, 125 >>

sbox(b) == SBOX[b + 1]

inv_sbox(b) == INV_SBOX[b + 1]

\* Multiplication by x in GF(2^8) modulo 0x11B.
gal2(b) == IF b >= 128 THEN Xor((2 * b) % 256, 27) ELSE 2 * b

gal3(b) == Xor(gal2(b), b)

gal9(b) == Xor(gal2(gal2(gal2(b))), b)

gal11(b) == Xor(Xor(gal2(gal2(gal2(b))), gal2(b)), b)

gal13(b) == Xor(Xor(gal2(gal2(gal2(b))), gal2(gal2(b))), b)

gal14(b) == Xor(Xor(gal2(gal2(gal2(b))), gal2(gal2(b))), gal2(b))

\* A 16-byte block is a sequence of 16 bytes; byte i of the Rust array is
\* element i + 1.  The state is column-major: state[r + 4c].
\* block(f) is the array with the bytes of f, each computed once.
block(f) ==
    << f[1], f[2], f[3], f[4], f[5], f[6], f[7], f[8],
       f[9], f[10], f[11], f[12], f[13], f[14], f[15], f[16] >>

add_round_key(state, k) == [i \in 1..16 |-> Xor(state[i], k[i])]

sub_bytes(state) == [i \in 1..16 |-> sbox(state[i])]

sub_bytes_inv(state) == [i \in 1..16 |-> inv_sbox(state[i])]

\* Row r is rotated left by r: new[r + 4c] = old[r + 4((c + r) mod 4)].
shift_rows(state) ==
    [i \in 1..16 |->
        LET r == (i - 1) % 4
            c == (i - 1) \div 4
        IN  state[r + 4 * ((c + r) % 4) + 1]]

shift_rows_inv(state) ==
    [i \in 1..16 |->
        LET r == (i - 1) % 4
            c == (i - 1) \div 4
        IN  state[r + 4 * ((c + 4 - r) % 4) + 1]]

mix_columns(state) ==
    [i \in 1..16 |->
        LET r == (i - 1) % 4
            c == (i - 1) \div 4
            a(j) == state[((r + j) % 4) + 4 * c + 1]
        IN  Xor(Xor(gal2(a(0)), gal3(a(1))), Xor(a(2), a(3)))]

mix_columns_inv(state) ==
    [i \in 1..16 |->
        LET r == (i - 1) % 4
            c == (i - 1) \div 4
            a(j) == state[((r + j) % 4) + 4 * c + 1]
        IN  Xor(Xor(gal14(a(0)), gal11(a(1))), Xor(gal13(a(2)), gal9(a(3))))]

\* AES-128 key schedule: the 11 round keys of a 16-byte key.
RCON == << 1, 2, 4, 8, 16, 32, 64, 128, 27, 54 >>

next_round_key(k, round) ==
    LET t == << Xor(sbox(k[14]), RCON[round]), sbox(k[15]), sbox(k[16]), sbox(k[13]) >>
        w0 == [j \in 1..4 |-> Xor(k[j], t[j])]
        w1 == [j \in 1..4 |-> Xor(k[4 + j], w0[j])]
        w2 == [j \in 1..4 |-> Xor(k[8 + j], w1[j])]
        w3 == [j \in 1..4 |-> Xor(k[12 + j], w2[j])]
    IN  w0 \o w1 \o w2 \o w3

\* The intermediate states of one AES-128 encryption, in order: after SubBytes,
\* ShiftRows, MixColumns (rounds 1..9 only) and AddRoundKey of every round.
\* prev_key is the key of round - 1.
RECURSIVE round_states(_, _, _)
round_states(state, prev_key, round) ==
    IF round > 10 THEN <<>>
    ELSE LET rk == next_round_key(prev_key, round)
             sb == block(sub_bytes(state))
             sr == block(shift_rows(sb))
             mc == block(mix_columns(sr))
             ark == block(add_round_key(IF round = 10 THEN sr ELSE mc, rk))
         IN  (IF round = 10 THEN << sb, sr, ark >> ELSE << sb, sr, mc, ark >>)
                \o round_states(ark, rk, round + 1)

\* All 40 intermediate states for one key, the initial AddRoundKey first.
key_states(payload, key) ==
    LET s0 == block(add_round_key(payload, key))
    IN  << s0 >> \o round_states(s0, key, 1)

RECURSIVE compute_all_states(_, _)
compute_all_states(payload, keys) ==
    IF keys = <<>> THEN <<>>
    ELSE key_states(payload, Head(keys)) \o compute_all_states(payload, Tail(keys))

(***************************************************************************)
(* Leakage models (power_consumption_models.rs)                            *)
(***************************************************************************)

\* f64::powf for the integral exponents the model draws beta_modifier from.
RECURSIVE powf(_, _)
powf(p, beta) == IF beta = 0 THEN 1 ELSE p * powf(p, beta - 1)

\* The packed decryption T-table word of both DecTable models,
\*   gal9(i) | gal11(i) << 8 | gal13(i) << 16 | gal14(i) << 24,
\* as its four byte lanes, least significant first: the shifted bytes do not
\* overlap, and the u32 itself exceeds TLC's integer range.
lut(i) == << gal9(i), gal11(i), gal13(i), gal14(i) >>

\* u32::count_ones of a word given by its byte lanes.
count_ones_u32(w) ==
    count_ones(w[1]) + count_ones(w[2]) + count_ones(w[3]) + count_ones(w[4])

\* payload[index] and aes_state.data[index] index a [u8; 16]: an index of 16
\* or more aborts the call.
index_in_bounds(index) == index < 16

Round0_estimate(m, payload, guess, index) ==
    powf(count_ones(sbox(Xor(payload[index + 1], guess))), m.beta_modifier)

Round1_estimate(m, payload, guess, index) ==
    LET aes_state ==
            mix_columns(shift_rows(sub_bytes(add_round_key(payload, m.key))))
    IN  powf(count_ones(Xor(sbox(Xor(aes_state[index + 1], guess)),
                            sbox(Xor(payload[index + 1], m.key[index + 1])))),
             m.beta_modifier)

\* ConsumptionModelRound0DecTable::estimate looking the byte up in the
\* forward S-box: the fault C14_V3Estimate rules out.
Round0DecTable_estimate_forward_sbox(m, payload, guess, index) ==
    powf(count_ones_u32(lut(sbox(Xor(payload[index + 1], guess)))),
         m.beta_modifier)

Round0DecTable_estimate(m, payload, guess, index) ==
    powf(count_ones_u32(lut(inv_sbox(Xor(payload[index + 1], guess)))),
         m.beta_modifier)

Round1DecTable_estimate(m, payload, guess, index) ==
    LET aes_state ==
            mix_columns_inv(sub_bytes_inv(shift_rows_inv(
                add_round_key(payload, m.key))))
    IN  powf(count_ones_u32(lut(inv_sbox(Xor(aes_state[index + 1], guess)))),
             m.beta_modifier)

\* Dynamic dispatch through Box<dyn ConsumptionModelTrait>.
estimate(m, payload, guess, index) ==
    CASE m.name = "round0" -> Round0_estimate(m, payload, guess, index)
      [] m.name = "round1" -> Round1_estimate(m, payload, guess, index)
      [] m.name = "round0dectable" ->
            Round0DecTable_estimate(m, payload, guess, index)
      [] m.name = "round1dectable" ->
            Round1DecTable_estimate(m, payload, guess, index)

RECURSIVE SeqSum(_)
SeqSum(s) == IF s = <<>> THEN 0 ELSE Head(s) + SeqSum(Tail(s))

state_hamming_weight(state) == SeqSum([i \in 1..16 |-> count_ones(state[i])])

(***************************************************************************)
(* Streaming correlation engine (correlation_engine.rs)                    *)
(***************************************************************************)

\* An Option<T> is a sequence of length at most one.
None == <<>>

Some(v) == << v >>

\* A usize count as two limbs << hi, lo >> of value hi * 2^16 + lo, with
\* lo < 2^16: counts of 2^31 and more are beyond TLC's integers.
wide(v) == << v \div 65536, v % 65536 >>

\* The integer of a limb pair below 2^31.
narrow(c) == c[1] * 65536 + c[2]

\* usize + usize on limb pairs (n below 2^16).
wide_add(c, n) ==
    LET lo == c[2] + n
    IN  << c[1] + (lo \div 65536), lo % 65536 >>

\* `as u32` of a usize: the value modulo 2^32, that is the high limb modulo
\* 2^16.
wide_as_u32(c) == << c[1] % 65536, c[2] >>

\* `as u32` of a count TLC can represent.
as_u32(v) == narrow(wide_as_u32(wide(v)))

\* into_iter().flatten().collect() of a Vec<Vec<f64>>: the rows one after
\* the other (the halves are flattened apart to keep the recursion shallow).
RECURSIVE flatten(_)
flatten(m) ==
    IF m = <<>> THEN <<>>
    ELSE IF Len(m) = 1 THEN m[1]
    ELSE LET half == Len(m) \div 2
         IN  flatten(SubSeq(m, 1, half)) \o flatten(SubSeq(m, half + 1, Len(m)))

\* slice::chunks(size): consecutive pieces of size elements, the last one
\* holding what remains.
chunks(v, size) ==
    [i \in 1..((Len(v) + size - 1) \div size) |->
        SubSeq(v, (i - 1) * size + 1,
               IF i * size <= Len(v) THEN i * size ELSE Len(v))]

\* A correlation value num / sqrt(den_x * den_y), kept exact as its three
\* integer parts; 0.0 is ZERO.
ZERO == [num |-> 0, den_x |-> 1, den_y |-> 1]

\* The final normalisation of one (h, t) cell (spec.md 4.3).
rho(n, sxy, sx, sy, sxx, syy) ==
    LET num   == n * sxy - sx * sy
        den_x == n * sxx - sx * sx
        den_y == n * syy - sy * sy
    IN  IF den_x <= 0 \/ den_y <= 0 THEN ZERO
        ELSE [num |-> num, den_x |-> den_x, den_y |-> den_y]

\* One execution of the device kernel compute_correlations on the grid
\* (n_guesses, sample_duration): work-item (h, t) owns cell h * T + t of
\* every buffer, folds the n_samples traces of the batch into its running
\* sums and recomputes its correlation with N = last_n + n_samples.
compute_correlations(dev, cmd) ==
    LET T == dev.dims[2]
        n == cmd.n_samples
        cells == 1..(dev.dims[1] * T)
        X(i, s) == cmd.samples[((i - 1) % T) * n + s]
        Y(i, s) == cmd.guesses[((i - 1) \div T) * n + s]
        mx  == [i \in cells |-> dev.mx_buffer[i] + SeqSum([s \in 1..n |-> X(i, s)])]
        my  == [i \in cells |-> dev.my_buffer[i] + SeqSum([s \in 1..n |-> Y(i, s)])]
        mmx == [i \in cells |->
                   dev.mmx_buffer[i] + SeqSum([s \in 1..n |-> X(i, s) * X(i, s)])]
        mmy == [i \in cells |->
                   dev.mmy_buffer[i] + SeqSum([s \in 1..n |-> Y(i, s) * Y(i, s)])]
        c   == [i \in cells |->
                   dev.c_buffer[i] + SeqSum([s \in 1..n |-> X(i, s) * Y(i, s)])]
    IN  [dims |-> dev.dims,
         mx_buffer |-> mx, my_buffer |-> my,
         mmx_buffer |-> mmx, mmy_buffer |-> mmy, c_buffer |-> c,
         result_buffer |->
            [i \in cells |->
                rho(cmd.last_n + n, c[i], mx[i], my[i], mmx[i], mmy[i])]]

\* The in-order command queue: every enqueued kernel runs, oldest first.
RECURSIVE run_all(_, _)
run_all(dev, q) ==
    IF q = <<>> THEN dev ELSE run_all(compute_correlations(dev, Head(q)), Tail(q))

\* No device: the solver has no engine yet.
NoDevice ==
    [dims |-> << 0, 0 >>, mx_buffer |-> <<>>, my_buffer |-> <<>>,
     mmx_buffer |-> <<>>, mmy_buffer |-> <<>>, c_buffer |-> <<>>,
     result_buffer |-> <<>>]

\* ProQue::create_buffer: a buffer of the ProQue's dims, zero filled.
create_buffer(dims, zero) == [i \in 1..(dims[1] * dims[2]) |-> zero]

\* Buffer::builder()...len(len).copy_host_slice(host).build(): the outcomes
\* the library can produce.  A zero length and a host slice of another
\* length than the buffer are refused; any build may fail on the device.
buffer_build(len, host) ==
    IF len = 0 THEN {"InvalidBufferSize"}
    ELSE IF Len(host) # len THEN {"LengthMismatch"}
    ELSE {"Ok", "Accelerator"}

\* OpenclCorrelationEngine::new: the set of its possible outcomes.
OpenclCorrelationEngine_new(sample_duration, n_guesses) ==
    LET dims == << n_guesses, sample_duration >>
        built ==
            [status |-> "Ok", cause |-> "",
             engine |-> Some([last_n |-> 0,
                              sample_duration |-> sample_duration,
                              n_guesses |-> n_guesses]),
             device |-> [dims |-> dims,
                         mx_buffer |-> create_buffer(dims, 0),
                         my_buffer |-> create_buffer(dims, 0),
                         mmx_buffer |-> create_buffer(dims, 0),
                         mmy_buffer |-> create_buffer(dims, 0),
                         c_buffer |-> create_buffer(dims, 0),
                         result_buffer |-> create_buffer(dims, ZERO)]]
        failed(cause) ==
            [status |-> "Err", cause |-> cause, engine |-> None,
             device |-> NoDevice]
    IN  IF n_guesses * sample_duration = 0 THEN { failed("InvalidBufferSize") }
        ELSE { built, failed("Accelerator") }

\* One outcome of OpenclCorrelationEngine::update: what it returns, the
\* engine as it leaves it, and the kernel command it enqueued, if any.
update_outcome(status, cause, e, enqueued) ==
    [status |-> status, cause |-> cause, engine |-> e, enqueued |-> enqueued]

\* OpenclCorrelationEngine::update with last_n advanced as soon as the
\* samples are on the device, before the guesses buffer is built: the fault
\* C5_RejectedUpdateLeavesEngine rules out.
OpenclCorrelationEngine_update_counts_first(e, samples, guesses) ==
    IF samples = <<>> THEN { update_outcome("Panic", "IndexOutOfBounds", e, None) }
    ELSE
    LET n_samples == Len(samples[1])
        samples_vec == flatten(samples)
        sb == buffer_build(e.sample_duration * n_samples, samples_vec)
        guesses_vec == flatten(guesses)
        gb == buffer_build(e.n_guesses * n_samples, guesses_vec)
        cmd == [samples |-> samples_vec, n_samples |-> as_u32(n_samples),
                guesses |-> guesses_vec, last_n |-> as_u32(e.last_n)]
        e4 == [e EXCEPT !.last_n = e.last_n + n_samples]
    IN  { update_outcome("Err", c, e, None) : c \in sb \ {"Ok"} }
        \cup
        (IF "Ok" \notin sb THEN {}
         ELSE { update_outcome("Err", c, e4, None) : c \in gb \ {"Ok"} }
              \cup
              (IF "Ok" \notin gb THEN {}
               ELSE { update_outcome("Err", "Accelerator", e4, None),
                      update_outcome("Ok", "", e4, Some(cmd)) }))

\* OpenclCorrelationEngine::update without set_arg("last_n", ...): the
\* kernel keeps the 0 it was built with, the fault C6_PartitionIndependence
\* rules out.
OpenclCorrelationEngine_update_stale_last_n(e, samples, guesses) ==
    IF samples = <<>> THEN { update_outcome("Panic", "IndexOutOfBounds", e, None) }
    ELSE
    LET n_samples == Len(samples[1])
        samples_vec == flatten(samples)
        sb == buffer_build(e.sample_duration * n_samples, samples_vec)
        guesses_vec == flatten(guesses)
        gb == buffer_build(e.n_guesses * n_samples, guesses_vec)
        cmd == [samples |-> samples_vec, n_samples |-> as_u32(n_samples),
                guesses |-> guesses_vec, last_n |-> 0]
        e4 == [e EXCEPT !.last_n = e.last_n + n_samples]
    IN  { update_outcome("Err", c, e, None) : c \in sb \ {"Ok"} }
        \cup
        (IF "Ok" \notin sb THEN {}
         ELSE { update_outcome("Err", c, e, None) : c \in gb \ {"Ok"} }
              \cup
              (IF "Ok" \notin gb THEN {}
               ELSE { update_outcome("Err", "Accelerator", e4, None),
                      update_outcome("Ok", "", e4, Some(cmd)) }))

\* OpenclCorrelationEngine::update: the set of its possible outcomes.  Each
\* `?` returns early with what was done before it.  The four named kernel
\* arguments are all set anew before every enq, so an argument left behind
\* by a call that failed is never read: the model keeps the arguments in the
\* enqueued command only.
OpenclCorrelationEngine_update(e, samples, guesses) ==
    IF samples = <<>> THEN { update_outcome("Panic", "IndexOutOfBounds", e, None) }
    ELSE
    LET n_samples == Len(samples[1])
        samples_vec == flatten(samples)
        sb == buffer_build(e.sample_duration * n_samples, samples_vec)
        guesses_vec == flatten(guesses)
        gb == buffer_build(e.n_guesses * n_samples, guesses_vec)
        cmd == [samples |-> samples_vec, n_samples |-> as_u32(n_samples),
                guesses |-> guesses_vec, last_n |-> as_u32(e.last_n)]
        e4 == [e EXCEPT !.last_n = e.last_n + n_samples]
    IN  \* samples buffer build; set_arg samples, n_samples
        { update_outcome("Err", c, e, None) : c \in sb \ {"Ok"} }
        \cup
        (IF "Ok" \notin sb THEN {}
         ELSE \* guesses buffer build; set_arg guesses, last_n
              { update_outcome("Err", c, e, None) : c \in gb \ {"Ok"} }
              \cup
              (IF "Ok" \notin gb THEN {}
               ELSE \* last_n += n_samples; enq
                    { update_outcome("Err", "Accelerator", e4, None),
                      update_outcome("Ok", "", e4, Some(cmd)) }))

\* OpenclCorrelationEngine::get_result with a read that does not wait for
\* the kernels enqueued before it: the fault C7_ReadSeesEveryDispatch rules
\* out.
OpenclCorrelationEngine_get_result_no_wait(e, dev, q) ==
    { [status |-> "Ok", cause |-> "", device |-> dev, queue |-> q,
       value |-> chunks(dev.result_buffer, e.sample_duration)],
      [status |-> "Err", cause |-> "Accelerator", device |-> dev, queue |-> q,
       value |-> <<>>] }

\* OpenclCorrelationEngine::get_result cutting the buffer into rows of
\* n_guesses values: the fault C10_ResultIsHByT rules out.
OpenclCorrelationEngine_get_result_by_guesses(e, dev, q) ==
    LET after == run_all(dev, q)
    IN  { [status |-> "Ok", cause |-> "", device |-> after, queue |-> <<>>,
           value |-> chunks(after.result_buffer, e.n_guesses)],
          [status |-> "Err", cause |-> "Accelerator", device |-> dev, queue |-> q,
           value |-> <<>>] }

\* OpenclCorrelationEngine::get_result clearing the result buffer once it
\* is read: the fault C11_GetResultReadsOnly rules out.
OpenclCorrelationEngine_get_result_clearing(e, dev, q) ==
    LET after == run_all(dev, q)
    IN  { [status |-> "Ok", cause |-> "",
           device |-> [after EXCEPT
                          !.result_buffer = create_buffer(after.dims, ZERO)],
           queue |-> <<>>,
           value |-> chunks(after.result_buffer, e.sample_duration)],
          [status |-> "Err", cause |-> "Accelerator", device |-> dev, queue |-> q,
           value |-> <<>>] }

\* OpenclCorrelationEngine::get_result: the blocking read of the result
\* buffer waits for every kernel enqueued before it, then the buffer is cut
\* into rows of sample_duration values.  The read may fail on the device.
OpenclCorrelationEngine_get_result(e, dev, q) ==
    LET after == run_all(dev, q)
    IN  { [status |-> "Ok", cause |-> "", device |-> after, queue |-> <<>>,
           value |-> chunks(after.result_buffer, e.sample_duration)],
          [status |-> "Err", cause |-> "Accelerator", device |-> dev, queue |-> q,
           value |-> <<>>] }

(***************************************************************************)
(* Python-facing drivers (lib.rs)                                          *)
(***************************************************************************)

\* H of the attack driver: one hypothesis per value of the guessed byte
\* (OpenclCorrelationEngine::new(duration, 256), guesses over 0..=u8::MAX).
N_GUESSES == 256

\* The length every round-key argument must have.
KEY_LEN == 16

\* PyDict::get_item on a dict given as a set of <<key, value>> pairs.
get_item(dict, k) ==
    LET hits == { p \in dict : p[1] = k }
    IN  IF hits = {} THEN None ELSE Some((CHOOSE p \in hits : TRUE)[2])

\* key_argument accepting any bytes object of at least 16 bytes: the fault
\* C9_ConstructionValidatesModel rules out.
key_argument_min_len(py_kwargs, arg) ==
    IF py_kwargs = None
    THEN [error |-> "Missing argument " \o arg, key |-> <<>>]
    ELSE LET item == get_item(py_kwargs[1], arg)
         IN  IF item = None
             THEN [error |-> "Missing argument " \o arg, key |-> <<>>]
             ELSE IF item[1].type # "bytes"
             THEN [error |-> arg \o " has invalid type", key |-> <<>>]
             ELSE IF Len(item[1].data) < KEY_LEN
             THEN [error |-> arg \o " must be 16 bytes long", key |-> <<>>]
             ELSE [error |-> "", key |-> SubSeq(item[1].data, 1, KEY_LEN)]

\* The key argument `arg` of the round1 models: present, a bytes object, of
\* 16 bytes.  Returns the error message, or "" and the key.
key_argument(py_kwargs, arg) ==
    IF py_kwargs = None
    THEN [error |-> "Missing argument " \o arg, key |-> <<>>]
    ELSE LET item == get_item(py_kwargs[1], arg)
         IN  IF item = None
             THEN [error |-> "Missing argument " \o arg, key |-> <<>>]
             ELSE IF item[1].type # "bytes"
             THEN [error |-> arg \o " has invalid type", key |-> <<>>]
             ELSE IF Len(item[1].data) # KEY_LEN
             THEN [error |-> arg \o " must be 16 bytes long", key |-> <<>>]
             ELSE [error |-> "", key |-> item[1].data]

get_power_consumption_model(name, py_kwargs, beta_modifier) ==
    LET keyed(arg) ==
            LET k == key_argument(py_kwargs, arg)
            IN  IF k.error # ""
                THEN [status |-> "Err", error |-> k.error, model |-> None]
                ELSE [status |-> "Ok", error |-> "",
                      model |-> Some([name |-> name,
                                      beta_modifier |-> beta_modifier,
                                      key |-> k.key])]
    IN  IF name = "round0" \/ name = "round0dectable"
        THEN [status |-> "Ok", error |-> "",
              model |-> Some([name |-> name, beta_modifier |-> beta_modifier,
                              key |-> <<>>])]
        ELSE IF name = "round1" THEN keyed("k0")
        ELSE IF name = "round1dectable" THEN keyed("tk0")
        ELSE [status |-> "Err", error |-> "Unknown model name", model |-> None]

\* The sample matrix handed over row by row, without the transposition:
\* the fault C15_TraceAlignment rules out.
columns_untransposed(py_samples) ==
    [s \in 1..py_samples.shape[1] |->
        [t \in 1..py_samples.shape[2] |-> py_samples.data[s][t]]]

\* ArrayView2::columns() of a numpy array of shape (S, T), each to_vec'ed.
columns(py_samples) ==
    [t \in 1..py_samples.shape[2] |->
        [s \in 1..py_samples.shape[1] |-> py_samples.data[s][t]]]

\* PyArray2::from_vec2 accepts only rows of one length.
is_rectangular(v) == \A i \in 1..Len(v) : Len(v[i]) = Len(v[1])

\* One outcome of a solver's update.
call_outcome(status, error, cause, e, dev, enqueued) ==
    [status |-> status, error |-> error, cause |-> cause, engine |-> e,
     device |-> dev, enqueued |-> enqueued]

\* An update that builds a new engine on every call: the fault
\* C8_EngineLazyAndFixed rules out.
engine_if_needed_rebuild(e, dev, duration, n_guesses) ==
    OpenclCorrelationEngine_new(duration, n_guesses)

\* The engine the update works on: the solver's, or one built now.
engine_if_needed(e, dev, duration, n_guesses) ==
    IF e = None THEN OpenclCorrelationEngine_new(duration, n_guesses)
    ELSE { [status |-> "Ok", cause |-> "", engine |-> e, device |-> dev] }

\* The tail of both update methods: forward to the engine, wrap its error.
forward_update(n, samples, guesses) ==
    { call_outcome(u.status,
                   CASE u.status = "Err" -> "Cannot update correlation engine"
                     [] u.status = "Panic" -> "index out of bounds"
                     [] OTHER -> "",
                   u.cause, Some(u.engine), n.device, u.enqueued) :
        u \in OpenclCorrelationEngine_update(n.engine[1], samples, guesses) }

\* CpaSolver::update: the set of its possible outcomes.
CpaSolver_update_outcomes(s, e, dev, payloads, py_samples) ==
    UNION {
        IF n.status # "Ok"
        THEN { call_outcome("Err", "Cannot build correlation engine", n.cause,
                            None, dev, None) }
        ELSE IF payloads # <<>> /\ ~index_in_bounds(s.k_index)
        THEN { call_outcome("Panic", "index out of bounds", "IndexOutOfBounds",
                            n.engine, n.device, None) }
        ELSE LET guesses ==
                     [i \in 1..N_GUESSES |->
                        [c \in 1..Len(payloads) |->
                            estimate(s.power_consumption_model, payloads[c],
                                     i - 1, s.k_index)]]
             IN  forward_update(n, columns(py_samples), guesses)
        : n \in engine_if_needed(e, dev, py_samples.shape[2], N_GUESSES) }

\* The Hamming weights of all AES states of one payload.
states_power(payload, keys) ==
    LET states == compute_all_states(payload, keys)
    IN  [x \in 1..Len(states) |-> state_hamming_weight(states[x])]

\* payloads.iter().map(...).collect(): one row of weights per payload.
RECURSIVE payloads_power(_, _)
payloads_power(payloads, keys) ==
    IF payloads = <<>> THEN <<>>
    ELSE << states_power(Head(payloads), keys) >>
            \o payloads_power(Tail(payloads), keys)

\* AssessmentSolver::update: the set of its possible outcomes.
AssessmentSolver_update_outcomes(s, e, dev, payloads, py_samples) ==
    LET dummy_payload == [i \in 1..16 |-> 0]
        dummy_states == compute_all_states(dummy_payload, s.keys)
    IN  UNION {
        IF n.status # "Ok"
        THEN { call_outcome("Err", "Cannot build correlation engine", n.cause,
                            None, dev, None) }
        ELSE IF payloads = <<>>
        THEN { call_outcome("Panic", "index out of bounds", "IndexOutOfBounds",
                            n.engine, n.device, None) }
        ELSE LET s_power_consumption == payloads_power(payloads, s.keys)
                 power_consumption ==
                     [x \in 1..Len(s_power_consumption[1]) |->
                        [y \in 1..Len(s_power_consumption) |->
                            s_power_consumption[y][x]]]
             IN  forward_update(n, columns(py_samples), power_consumption)
        : n \in engine_if_needed(e, dev, py_samples.shape[2], Len(dummy_states)) }

\* get_result of both solvers: the set of its possible outcomes.
get_result_outcomes(e, dev, q) ==
    IF e = None
    THEN { [status |-> "Err", error |-> "No results", cause |-> "",
            device |-> dev, queue |-> q, value |-> <<>>] }
    ELSE { IF r.status # "Ok"
           THEN [status |-> "Err", error |-> "Cannot get correlation results",
                 cause |-> r.cause, device |-> r.device, queue |-> r.queue,
                 value |-> <<>>]
           ELSE IF ~is_rectangular(r.value)
           THEN [status |-> "Panic", error |-> "from_vec2", cause |-> "",
                 device |-> r.device, queue |-> r.queue, value |-> <<>>]
           ELSE [status |-> "Ok", error |-> "", cause |-> "",
                 device |-> r.device, queue |-> r.queue, value |-> r.value]
           : r \in OpenclCorrelationEngine_get_result(e[1], dev, q) }

(***************************************************************************)
(* Bounds and inputs                                                       *)
(***************************************************************************)

\* Most traces (rows, payloads) in one update call.
MaxS == 2

\* Most time columns of a sample matrix.
MaxT == 2

\* Most traces an engine is fed in all.
MaxN == 2

\* Most keys given to an AssessmentSolver.
MaxKeys == 1

\* The 16-byte payload of trace id.
Payload(id) == [i \in 1..16 |-> (37 * id + 11 * (i - 1)) % 256]

\* The sample of trace id at time t (0-based).
SampleValue(id, t) == (id * (t + 2)) % 5

\* A numpy array of shape (Len(ids), cols) holding the traces ids.
PySamples(ids, cols) ==
    [shape |-> << Len(ids), cols >>,
     data |-> [s \in 1..Len(ids) |-> [t \in 1..cols |-> SampleValue(ids[s], t - 1)]]]

\* The caller feeds a stream of traces 1, 2, ...: the k traces after the
\* first n.
NextTraces(n, k) == [i \in 1..k |-> n + i]

ByteString(n) == [type |-> "bytes", data |-> [i \in 1..n |-> (29 * i) % 256]]

NotBytes == [type |-> "str", data |-> [i \in 1..KEY_LEN |-> 48]]

ExtraValues ==
    { ByteString(KEY_LEN - 1), ByteString(KEY_LEN), ByteString(KEY_LEN + 1),
      NotBytes }

KwargsSet ==
    { None, Some({}) }
        \cup { Some({ << k, v >> }) : k \in {"k0", "tk0"}, v \in ExtraValues }

\* The (name, k_index, beta_modifier) a CpaSolver is constructed with.
CpaArgs ==
    { << "round0", 0, 1 >>, << "round1dectable", 3, 2 >>,
      << "round0dectable", 16, 1 >>, << "round1", 16, 1 >>, << "round2", 0, 1 >> }

AesKey(j) == [i \in 1..16 |-> (j + 17 * i) % 256]

KeySeqs == { [j \in 1..k |-> AesKey(j)] : k \in 0..MaxKeys }

(***************************************************************************)
(* State                                                                   *)
(***************************************************************************)

VARIABLES
    solver,              \* the Python object: None, or Some(CpaSolver /
                         \* AssessmentSolver fields other than the engine)
    correlation_engine,  \* its correlation_engine field (host side)
    device,              \* the engine's device buffers
    queue,               \* kernel commands enqueued and not yet executed
    ret,                 \* what the last host call returned
    dispatched,          \* history: every kernel command ever enqueued
    accel_failed         \* history: some call on the engine failed on the
                         \* accelerator

vars == << solver, correlation_engine, device, queue, ret, dispatched,
           accel_failed >>

\* The record of a host call: what it was given (args: the model name and
\* kwargs of a constructor, the payload count and sample shape of an update)
\* and what it returned.
Returned(call, args, status, error, cause, value) ==
    [call |-> call, args |-> args, status |-> status, error |-> error,
     cause |-> cause, value |-> value]

Init ==
    /\ solver = None
    /\ correlation_engine = None
    /\ device = NoDevice
    /\ queue = <<>>
    /\ ret = Returned("none", <<>>, "Ok", "", "", <<>>)
    /\ dispatched = <<>>
    /\ accel_failed = FALSE

host_n == IF correlation_engine = None THEN 0 ELSE correlation_engine[1].last_n

(***************************************************************************)
(* Operations                                                              *)
(***************************************************************************)

CpaSolver_new(name, k_index, beta_modifier, py_kwargs) ==
    /\ solver = None
    /\ LET m == get_power_consumption_model(name, py_kwargs, beta_modifier)
       IN  /\ solver' =
                IF m.status = "Ok"
                THEN Some([kind |-> "CpaSolver",
                           power_consumption_model |-> m.model[1],
                           k_index |-> k_index, keys |-> <<>>])
                ELSE None
           /\ ret' = Returned("CpaSolver.new", << name, py_kwargs >>, m.status,
                           m.error, "", <<>>)
    /\ UNCHANGED << correlation_engine, device, queue, dispatched, accel_failed >>

AssessmentSolver_new(keys) ==
    /\ solver = None
    /\ solver' = Some([kind |-> "AssessmentSolver",
                       power_consumption_model |->
                           [name |-> "", beta_modifier |-> 0, key |-> <<>>],
                       k_index |-> 0, keys |-> keys])
    /\ ret' = Returned("AssessmentSolver.new", << keys >>, "Ok", "", "", <<>>)
    /\ UNCHANGED << correlation_engine, device, queue, dispatched, accel_failed >>

\* The effect of one outcome of an update call.
apply_update(o, args) ==
    /\ correlation_engine' = o.engine
    /\ device' = o.device
    /\ queue' = queue \o o.enqueued
    /\ dispatched' = dispatched \o o.enqueued
    /\ accel_failed' =
          (accel_failed \/ (o.cause = "Accelerator" /\ o.engine # None))
    /\ ret' = Returned("update", args, o.status, o.error, o.cause, <<>>)
    /\ UNCHANGED solver

CpaSolver_update(payloads, py_samples) ==
    /\ solver # None
    /\ solver[1].kind = "CpaSolver"
    /\ host_n + py_samples.shape[1] <= MaxN
    /\ \E o \in CpaSolver_update_outcomes(solver[1], correlation_engine, device,
                                          payloads, py_samples) :
            apply_update(o, << Len(payloads), py_samples.shape[1],
                               py_samples.shape[2] >>)

AssessmentSolver_update(payloads, py_samples) ==
    /\ solver # None
    /\ solver[1].kind = "AssessmentSolver"
    /\ host_n + py_samples.shape[1] <= MaxN
    /\ \E o \in AssessmentSolver_update_outcomes(solver[1], correlation_engine,
                                                 device, payloads, py_samples) :
            apply_update(o, << Len(payloads), py_samples.shape[1],
                               py_samples.shape[2] >>)

\* The effect of one outcome of a get_result call.
apply_get_result(o) ==
    /\ device' = o.device
    /\ queue' = o.queue
    /\ accel_failed' = (accel_failed \/ o.cause = "Accelerator")
    /\ ret' = Returned("get_result", <<>>, o.status, o.error, o.cause,
                      o.value)
    /\ UNCHANGED << solver, correlation_engine, dispatched >>

CpaSolver_get_result ==
    /\ solver # None
    /\ solver[1].kind = "CpaSolver"
    /\ \E o \in get_result_outcomes(correlation_engine, device, queue) :
            apply_get_result(o)

AssessmentSolver_get_result ==
    /\ solver # None
    /\ solver[1].kind = "AssessmentSolver"
    /\ \E o \in get_result_outcomes(correlation_engine, device, queue) :
            apply_get_result(o)

\* The device executes the oldest enqueued kernel.
KernelRun ==
    /\ queue # <<>>
    /\ device' = compute_correlations(device, Head(queue))
    /\ queue' = Tail(queue)
    /\ UNCHANGED << solver, correlation_engine, ret, dispatched, accel_failed >>

Front(s) == SubSeq(s, 1, Len(s) - 1)

\* The (payload traces, sample-row traces, columns) of an update call when
\* n traces are counted: as many payloads as rows, or one payload or one row
\* missing.
Batches(n) ==
    { << NextTraces(n, k), NextTraces(n, k), c >> : k \in 0..MaxS, c \in 0..MaxT }
        \cup { << Front(NextTraces(n, k)), NextTraces(n, k), c >> :
                    k \in 1..MaxS, c \in 1..MaxT }
        \cup { << NextTraces(n, k), Front(NextTraces(n, k)), c >> :
                    k \in 1..MaxS, c \in 1..MaxT }

Next ==
    \/ \E a \in CpaArgs, kw \in KwargsSet : CpaSolver_new(a[1], a[2], a[3], kw)
    \/ \E keys \in KeySeqs : AssessmentSolver_new(keys)
    \/ \E b \in Batches(host_n) :
          CpaSolver_update([i \in 1..Len(b[1]) |-> Payload(b[1][i])],
                           PySamples(b[2], b[3]))
    \/ \E b \in Batches(host_n) :
          AssessmentSolver_update([i \in 1..Len(b[1]) |-> Payload(b[1][i])],
                                  PySamples(b[2], b[3]))
    \/ CpaSolver_get_result
    \/ AssessmentSolver_get_result
    \/ KernelRun

Spec == Init /\ [][Next]_vars

(***************************************************************************)
(* The leakage models on their own                                         *)
(***************************************************************************)

ZeroPayload == [i \in 1..16 |-> 0]

\* The four models, keyed where they take a key, with two exponents.
EstimateModels ==
    { [name |-> n, beta_modifier |-> b,
       key |-> IF n \in {"round1", "round1dectable"} THEN AesKey(1) ELSE <<>>] :
        n \in {"round0", "round0dectable", "round1", "round1dectable"},
        b \in {1, 2} }

EstimatePayloads == { ZeroPayload, Payload(1) }

EstimateGuesses == { 0, 1, 85, 255 }

EstimateIndexes == { 0, 5, 15 }

\* One call of ConsumptionModelTrait::estimate with an index inside the
\* payload; the call record keeps the arguments and the estimate.
call_estimate(m, payload, guess, index) ==
    /\ index_in_bounds(index)
    /\ ret' = Returned("estimate", << m, payload, guess, index >>, "Ok", "", "",
                       estimate(m, payload, guess, index))
    /\ UNCHANGED << solver, correlation_engine, device, queue, dispatched,
                    accel_failed >>

NextEstimate ==
    \E m \in EstimateModels, payload \in EstimatePayloads,
       guess \in EstimateGuesses, index \in EstimateIndexes :
        call_estimate(m, payload, guess, index)

SpecEstimate == Init /\ [][NextEstimate]_vars

(***************************************************************************)
(* The trace count on its own                                              *)
(***************************************************************************)

\* Most traces fed after the starting count.
MaxFed == 12

\* Counts an engine holds after that many traces: 0, and counts just below
\* 2^16, 2^31 and 2^32.
StartCounts ==
    { << 0, 0 >>, << 0, 65534 >>, << 32767, 65534 >>, << 65535, 65530 >>,
      << 65535, 65534 >> }

\* The engine with last_n = c, before any of the updates followed here.
InitCount ==
    /\ solver = None
    /\ correlation_engine = None
    /\ device = NoDevice
    /\ queue = <<>>
    /\ ret \in { Returned("count", << c, 0 >>, "Ok", "", "",
                          [last_n |-> c, fed |-> 0, arg_n_samples |-> wide(0),
                           arg_last_n |-> wide(0)]) : c \in StartCounts }
    /\ dispatched = <<>>
    /\ accel_failed = FALSE

\* The count handling of one OpenclCorrelationEngine::update of n_samples
\* traces: set_arg("n_samples", n_samples as u32), set_arg("last_n",
\* self.last_n as u32), self.last_n += n_samples.  The call record keeps
\* the host values (args) and the arguments the kernel was given.
count_update(n_samples) ==
    /\ ret.call = "count"
    /\ ret.value.fed + n_samples <= MaxFed
    /\ ret' = Returned("count", << ret.value.last_n, n_samples >>, "Ok", "", "",
                       [last_n |-> wide_add(ret.value.last_n, n_samples),
                        fed |-> ret.value.fed + n_samples,
                        arg_n_samples |-> wide_as_u32(wide(n_samples)),
                        arg_last_n |-> wide_as_u32(ret.value.last_n)])
    /\ UNCHANGED << solver, correlation_engine, device, queue, dispatched,
                    accel_failed >>

NextCount == \E n_samples \in 1..MaxS : count_update(n_samples)

SpecCount == InitCount /\ [][NextCount]_vars

(***************************************************************************)
(* Properties                                                              *)
(***************************************************************************)

has_engine == correlation_engine # None

engine == correlation_engine[1]

\* Traces of all kernel commands enqueued so far.
RECURSIVE total_samples(_)
total_samples(cmds) ==
    IF cmds = <<>> THEN 0 ELSE Head(cmds).n_samples + total_samples(Tail(cmds))

\* An update has succeeded exactly when it enqueued its kernel command.
some_update_succeeded == dispatched # <<>>

\* C1: get_result fails as long as no update call on the solver has returned
\* Ok, also after a first update that returned an error.
C1_GetResultFailsBeforeSuccess ==
    (ret.call = "get_result" /\ ~some_update_succeeded) => ret.status = "Err"

\* The engine is as constructed: it has taken in no update.
Fresh == has_engine /\ engine.last_n = 0 /\ dispatched = <<>>

\* C2: get_result on an engine in state Fresh fails with EEmpty ("No
\* results"), and in every other state it does not fail for that reason.
C2_FreshGetResultIsEmpty ==
    ret.call = "get_result" =>
        /\ (Fresh \/ ~has_engine) => (ret.status = "Err" /\ ret.error = "No results")
        /\ (has_engine /\ ~Fresh) => ret.error # "No results"

\* C3: in every state the host count last_n is the number of traces of
\* the batches accumulated by past updates.
C3_CountIsSumOfBatches ==
    has_engine => engine.last_n = total_samples(dispatched)

\* A transition made by an update call: the call record is an update's and
\* no kernel left the queue.
update_step == ret'.call = "update" /\ Len(queue') >= Len(queue)

\* The batch of the update call just recorded does not fit the engine e:
\* not e's T columns, or not one hypothesis entry per sample trace.
Mismatched(e, args) ==
    \/ e # None /\ args[3] # e[1].sample_duration
    \/ args[1] # args[2]

\* C4: every update with a mismatched batch (a sample matrix without T
\* columns, or hypotheses without one entry per sample trace) is rejected by
\* returning an error, and dispatches nothing.
C4_MismatchRejectedWithError ==
    [][(update_step /\ Mismatched(correlation_engine, ret'.args)) =>
           (ret'.status = "Err" /\ UNCHANGED << queue, dispatched >>)]_vars

\* The failure causes of a batch of the wrong dimensions.
ShapeCauses == {"LengthMismatch", "InvalidBufferSize"}

\* The device buffers as OpenclCorrelationEngine::new leaves them.
Zeroed(dims) ==
    LET zeros(z) == [i \in 1..(dims[1] * dims[2]) |-> z]
    IN  [dims |-> dims, mx_buffer |-> zeros(0), my_buffer |-> zeros(0),
         mmx_buffer |-> zeros(0), mmy_buffer |-> zeros(0),
         c_buffer |-> zeros(0), result_buffer |-> zeros(ZERO)]

as_constructed ==
    /\ has_engine
    /\ engine.last_n = 0
    /\ device = Zeroed(<< engine.n_guesses, engine.sample_duration >>)

\* C5: an update rejected for its dimensions leaves the engine as it was
\* before the engine took the call: T, H, last_n, the six device buffers and
\* the pending kernels are unchanged (an engine the same call built is
\* still as constructed), so later calls behave as if it had not been made.
C5_RejectedUpdateLeavesEngine ==
    [][(update_step /\ ret'.status = "Err" /\ ret'.cause \in ShapeCauses) =>
           /\ UNCHANGED << queue, dispatched >>
           /\ IF has_engine
              THEN UNCHANGED << correlation_engine, device >>
              ELSE correlation_engine' = None \/ as_constructed']_vars

C5_Witness ==
    /\ ret.call = "update" /\ ret.status = "Err" /\ ret.cause = "LengthMismatch"
    /\ Len(dispatched) = 1
    /\ queue = <<>>
    /\ engine.last_n = 1

\* Row r (1-based) of a flattened matrix of rows of n values.
flat_row(v, n, r) == SubSeq(v, (r - 1) * n + 1, r * n)

\* Row r of one field of every command, one after the other.
RECURSIVE joined_row(_, _, _)
joined_row(cmds, field, r) ==
    IF cmds = <<>> THEN <<>>
    ELSE flat_row(Head(cmds)[field], Head(cmds).n_samples, r)
            \o joined_row(Tail(cmds), field, r)

\* The traces of all commands as the command of one single batch.
whole_stream(cmds, dims) ==
    [samples |-> flatten([t \in 1..dims[2] |-> joined_row(cmds, "samples", t)]),
     n_samples |-> total_samples(cmds),
     guesses |-> flatten([h \in 1..dims[1] |-> joined_row(cmds, "guesses", h)]),
     last_n |-> 0]

C7_ReadSeesEveryDispatch ==
    (ret.call = "get_result" /\ ret.status = "Ok") =>
        /\ queue = <<>>
        /\ ret.value = chunks(run_all(Zeroed(device.dims), dispatched).result_buffer,
                              engine.sample_duration)

C7_Witness ==
    /\ ret.call = "get_result" /\ ret.status = "Ok"
    /\ Len(dispatched) = 2
    /\ \E h \in 1..Len(ret.value) :
          ret.value[h] # chunks(run_all(Zeroed(device.dims),
                                        << dispatched[1] >>).result_buffer,
                                engine.sample_duration)[h]

\* C8: there is no engine until an update builds one, with 256 hypotheses
\* for a CpaSolver and as many time points as that call's sample matrix has
\* columns; an engine that exists stays, with the same T and H and
\* a count that never goes back.
C8_EngineLazyAndFixed ==
    /\ [](ret.call \in {"none", "CpaSolver.new", "AssessmentSolver.new"} =>
              ~has_engine)
    /\ []((has_engine /\ solver[1].kind = "CpaSolver") => engine.n_guesses = 256)
    /\ [][(~has_engine /\ has_engine') =>
              /\ ret'.call = "update"
              /\ correlation_engine'[1].sample_duration = ret'.args[3]
              /\ device'.dims[2] = ret'.args[3]]_vars
    /\ [][has_engine =>
              /\ correlation_engine' # None
              /\ correlation_engine'[1].sample_duration = engine.sample_duration
              /\ correlation_engine'[1].n_guesses = engine.n_guesses
              /\ correlation_engine'[1].last_n >= engine.last_n]_vars

C8_Witness ==
    /\ has_engine /\ solver[1].kind = "CpaSolver"
    /\ engine.sample_duration = 1
    /\ Len(dispatched) = 1
    /\ ret.call = "update" /\ ret.args[3] = 2 /\ ret.status = "Err"

\* The extras hold a bytes value of 16 bytes under key k.
supplies_key(py_kwargs, k) ==
    /\ py_kwargs # None
    /\ \E p \in py_kwargs[1] :
          p[1] = k /\ p[2].type = "bytes" /\ Len(p[2].data) = 16

\* C9: CpaSolver construction returns Ok exactly for the four model names
\* with, for round1, a 16-byte bytes k0 and, for round1dectable, a 16-byte
\* bytes tk0; otherwise it returns an error and there is no solver and no
\* engine.
C9_ConstructionValidatesModel ==
    ret.call = "CpaSolver.new" =>
        LET name == ret.args[1]
            valid ==
                /\ name \in {"round0", "round0dectable", "round1", "round1dectable"}
                /\ name = "round1" => supplies_key(ret.args[2], "k0")
                /\ name = "round1dectable" => supplies_key(ret.args[2], "tk0")
        IN  /\ ret.status = "Ok" <=> valid
            /\ ret.status = "Ok" => (solver # None /\ ~has_engine)
            /\ ret.status # "Ok" =>
                   (ret.status = "Err" /\ solver = None /\ ~has_engine)

C9_Witness ==
    /\ ret.call = "CpaSolver.new" /\ ret.status = "Err"
    /\ ret.args[1] = "round1dectable"
    /\ supplies_key(ret.args[2], "k0")

\* C10: the result buffer holds H * T values, and a get_result that returns
\* Ok returns H rows of T values each; get_result never fails to build its
\* matrix.
C10_ResultIsHByT ==
    /\ has_engine =>
          Len(device.result_buffer) = engine.n_guesses * engine.sample_duration
    /\ ret.call = "get_result" => ret.status # "Panic"
    /\ (ret.call = "get_result" /\ ret.status = "Ok") =>
          /\ Len(ret.value) = engine.n_guesses
          /\ \A h \in 1..Len(ret.value) : Len(ret.value[h]) = engine.sample_duration

C10_Witness ==
    /\ ret.call = "get_result" /\ ret.status = "Ok"
    /\ dispatched # <<>>
    /\ engine.sample_duration = 2
    /\ Len(ret.value) = 256

\* C11: a get_result call changes neither the solver nor the engine's T, H
\* and last_n, enqueues nothing, and leaves the device buffers as the
\* updates made so far determine them (the buffers once the pending kernels
\* have run are the same before and after); a get_result that follows a
\* get_result with no update in between returns the same matrix.
C11_GetResultReadsOnly ==
    [][ret'.call = "get_result" =>
           /\ UNCHANGED << solver, correlation_engine, dispatched >>
           /\ run_all(device', queue') = run_all(device, queue)
           /\ (ret.call = "get_result" /\ ret.status = "Ok" /\ ret'.status = "Ok")
                  => ret'.value = ret.value]_vars

C11_Witness ==
    /\ ret.call = "get_result" /\ ret.status = "Ok"
    /\ Len(dispatched) = 1
    /\ dispatched[1].n_samples = 2
    /\ engine.last_n = 2
    /\ \E h \in 1..Len(ret.value) : ret.value[h][1].num # 0

\* C12: once an update or a get_result on the engine has failed on the
\* accelerator, no later update or get_result on it returns Ok.
C12_AcceleratorFailureIsFatal ==
    accel_failed => ~(ret.call \in {"update", "get_result"} /\ ret.status = "Ok")

\* The device buffers once every pending kernel has run: what a get_result
\* reads.
settled == run_all(device, queue)

\* Hypothesis h (1-based) has one and the same value for every trace fed.
constant_hypothesis(h) ==
    LET y == joined_row(dispatched, "guesses", h)
    IN  \A i \in 1..Len(y) : y[i] = y[1]

\* Cell i holds 0 if a variance term computed with count n is not positive.
degenerate_is_zero(dev, n, i) ==
    (\/ n * dev.mmx_buffer[i] - dev.mx_buffer[i] * dev.mx_buffer[i] <= 0
     \/ n * dev.mmy_buffer[i] - dev.my_buffer[i] * dev.my_buffer[i] <= 0)
        => dev.result_buffer[i] = ZERO

\* num / sqrt(den_x * den_y) lies in [-1, +1].
in_range(r) == r.num * r.num <= r.den_x * r.den_y

\* C13: after any sequence of updates every cell whose den_x or den_y
\* (with N = last_n) is not positive holds exactly 0, every cell of a
\* hypothesis that is constant over the traces fed holds 0, and every
\* correlation lies in [-1, +1].
C13_DegenerateVarianceIsZero ==
    (has_engine /\ dispatched # <<>>) =>
        LET dev == settled
            T == engine.sample_duration
        IN  \A i \in 1..Len(dev.result_buffer) :
                /\ degenerate_is_zero(dev, engine.last_n, i)
                /\ constant_hypothesis(((i - 1) \div T) + 1)
                       => dev.result_buffer[i] = ZERO
                /\ in_range(dev.result_buffer[i])

\* The call of conformance vector V3: round0dectable with beta = 1 on the
\* all-zero payload, guess 0x00, index 0.
IsV3 ==
    /\ ret.call = "estimate"
    /\ ret.args = << [name |-> "round0dectable", beta_modifier |-> 1, key |-> <<>>],
                     ZeroPayload, 0, 0 >>

\* The 32-bit word of four byte lanes, least significant first.
word(lanes) ==
    lanes[1] + 256 * lanes[2] + 65536 * lanes[3] + 16777216 * lanes[4]

\* C14 as stated: on V3 the model looks up i = inv_sbox(0x00) = 0x52, packs
\* the word 0x40CFD34C and returns its Hamming weight 14.
C14_V3AsStated ==
    IsV3 =>
        /\ inv_sbox(0) = 82
        /\ word(lut(inv_sbox(0))) = 1087361868
        /\ ret.value = 14

\* C14, amended: on V3 the model looks up i = inv_sbox(0x00) = 0x52, packs
\* gal9(i) = 0xF4, gal11(i) = 0x50, gal13(i) = 0xA7, gal14(i) = 0x51 into
\* the word 0x51A750F4 and returns its Hamming weight 15.
C14_V3Estimate ==
    IsV3 =>
        /\ inv_sbox(0) = 82
        /\ lut(82) = << 244, 80, 167, 81 >>
        /\ word(lut(inv_sbox(0))) = 1369919732
        /\ ret.value = 15

C14_Witness == IsV3 /\ ret.value = 15

\* C15: in every kernel command a CpaSolver enqueued for a batch of S
\* traces, samples[t * S + s] is the sample of trace s at time t and
\* guesses[h * S + s] is estimate(payload of trace s, h, k_index), for all
\* t < T, h < 256 and s < S (the traces of a batch are those after the
\* last_n already counted).
C15_TraceAlignment ==
    (solver # None /\ solver[1].kind = "CpaSolver") =>
        \A k \in 1..Len(dispatched) :
            LET cmd == dispatched[k]
                S == cmd.n_samples
                T == engine.sample_duration
                ids == NextTraces(cmd.last_n, S)
            IN  /\ Len(cmd.samples) = T * S
                /\ Len(cmd.guesses) = 256 * S
                /\ \A s \in 0..(S - 1) :
                      /\ \A t \in 0..(T - 1) :
                            cmd.samples[t * S + s + 1] = SampleValue(ids[s + 1], t)
                      /\ \A h \in 0..255 :
                            cmd.guesses[h * S + s + 1] =
                                estimate(solver[1].power_consumption_model,
                                         Payload(ids[s + 1]), h, solver[1].k_index)

C15_Witness ==
    /\ solver # None /\ solver[1].kind = "CpaSolver"
    /\ solver[1].power_consumption_model.name = "round1dectable"
    /\ Len(dispatched) = 1
    /\ dispatched[1].n_samples = 2
    /\ engine.sample_duration = 2

\* C16: at every kernel dispatch the last_n argument is the number of
\* traces the earlier dispatches folded into the device sums, whatever
\* updates failed in between.
C16_HostDeviceLockstep ==
    \A k \in 1..Len(dispatched) :
        dispatched[k].last_n = total_samples(SubSeq(dispatched, 1, k - 1))

\* C17: no update aborts by indexing out of bounds: each returns Ok or an
\* error value.
C17_UpdateIsTotal ==
    ret.call = "update" => ret.status \in {"Ok", "Err"}

\* C18: the n_samples and last_n arguments given to the kernel as u32 equal
\* the host's n_samples and last_n, whatever the count has grown to.
C18_CastKeepsCount ==
    (ret.call = "count" /\ ret.value.fed > 0) =>
        /\ ret.value.arg_last_n = ret.args[1]
        /\ ret.value.arg_n_samples = wide(ret.args[2])

=============================================================================
